---- MODULE Spec2Model ----
(***************************************************************************)
(* LayerReader (GDSII_Reader.py) and the viewer script (model_main.py).    *)
(*                                                                         *)
(* Encoding of Python values:                                              *)
(*   str        a sequence of one-character strings, '' is <<>>            *)
(*   None / x   an optional value: None is <<>>, a present x is <<x>>      *)
(*   dict       layer_mapping is a function (its order is never read);     *)
(*              self.layers is a sequence of <<key, info>> pairs in        *)
(*              insertion order (its order is read by .items())            *)
(*   float      the floats of model_main.py are whole numbers here         *)
(*              (integers times z_scale, and 1.0), kept as integers        *)
(***************************************************************************)
EXTENDS Integers, Sequences, FiniteSets, TLC

VARIABLES
    pc,              \* position of the program
    mapFile,         \* the mapping file _load_layer_mapping read
    defFile,         \* the definition file _load_layer_def read
    colorFile,       \* the color file _load_layer_color read
    layer_mapping,   \* self.layer_mapping
    layers,          \* self.layers
    row_num,         \* index of the next line/row of the file being read
    exception,       \* the exception that left the constructor, or None
    query,           \* the last query made of the table and its outcome
    ld_to_key,       \* model_main.py globals
    bottom_top,
    layer_colors,
    fig,             \* the traces of the figure
    height_skips,    \* layer keys build_figure dropped at its height == 0.0 test
    clicked_points,
    output,          \* what the last measure() call returned for "output"
    clicks           \* number of measure() calls with click data so far

vars == <<pc, mapFile, defFile, colorFile, layer_mapping, layers, row_num,
          exception, query, ld_to_key, bottom_top, layer_colors, fig,
          height_skips, clicked_points, output, clicks>>

----------------------------------------------------------------------------
(* Bounds of the explored inputs *)
MaxMapLines == 2
MaxDefRows == 2
MaxColorRows == 2
MaxClicks == 4

----------------------------------------------------------------------------
(* Python values *)
None == <<>>
Some(x) == <<x>>

\* a or b, for a an optional str: a when it is neither None nor ''
Or(a, b) == IF a # None /\ a[1] # <<>> THEN a[1] ELSE b

IsSpace(c) == c \in {" ", "\t", "\n"}

RECURSIVE lstrip(_)
lstrip(s) == IF s # <<>> /\ IsSpace(Head(s)) THEN lstrip(Tail(s)) ELSE s

RECURSIVE rstrip(_)
rstrip(s) ==
    IF s # <<>> /\ IsSpace(s[Len(s)]) THEN rstrip(SubSeq(s, 1, Len(s) - 1)) ELSE s

strip(s) == rstrip(lstrip(s))

RECURSIVE SplitFrom(_, _, _)
SplitFrom(s, cur, acc) ==
    LET done == IF cur = <<>> THEN acc ELSE Append(acc, cur)
    IN  IF s = <<>> THEN done
        ELSE IF IsSpace(Head(s)) THEN SplitFrom(Tail(s), <<>>, done)
        ELSE SplitFrom(Tail(s), Append(cur, Head(s)), acc)

\* str.split() with no argument: the maximal runs of non-whitespace
split(s) == SplitFrom(s, <<>>, <<>>)

Digits == {"0", "1", "2", "3", "4", "5", "6", "7", "8", "9"}

DigitVal(c) ==
    CASE c = "0" -> 0 [] c = "1" -> 1 [] c = "2" -> 2 [] c = "3" -> 3
      [] c = "4" -> 4 [] c = "5" -> 5 [] c = "6" -> 6 [] c = "7" -> 7
      [] c = "8" -> 8 [] c = "9" -> 9

DigitChar(d) ==
    CASE d = 0 -> "0" [] d = 1 -> "1" [] d = 2 -> "2" [] d = 3 -> "3"
      [] d = 4 -> "4" [] d = 5 -> "5" [] d = 6 -> "6" [] d = 7 -> "7"
      [] d = 8 -> "8" [] d = 9 -> "9"

AllDigits(s) == \A i \in 1..Len(s) : s[i] \in Digits

RECURSIVE DigitsValue(_, _)
DigitsValue(s, acc) ==
    IF s = <<>> THEN acc ELSE DigitsValue(Tail(s), acc * 10 + DigitVal(Head(s)))

IsSigned(s) == s # <<>> /\ Head(s) \in {"-", "+"}
SignOf(s) == IF s # <<>> /\ Head(s) = "-" THEN -1 ELSE 1

\* int(tok) for a token without whitespace: an optional sign and decimal
\* digits; None stands for the ValueError int() raises on anything else
int(tok) ==
    LET body == IF IsSigned(tok) THEN Tail(tok) ELSE tok
    IN  IF body # <<>> /\ AllDigits(body)
        THEN Some(SignOf(tok) * DigitsValue(body, 0))
        ELSE None

DotAt(s) ==
    IF \E i \in 1..Len(s) : s[i] = "."
    THEN CHOOSE i \in 1..Len(s) : s[i] = "." /\ \A j \in 1..(i - 1) : s[j] # "."
    ELSE 0

\* int(float(s)) for plain decimal text (sign, digits, at most one point, no
\* exponent): float() accepts surrounding whitespace and needs a digit, int()
\* truncates towards zero. None stands for the ValueError float() raises.
int_float(s) ==
    LET t == strip(s)
        body == IF IsSigned(t) THEN Tail(t) ELSE t
        dot == DotAt(body)
        ip == IF dot = 0 THEN body ELSE SubSeq(body, 1, dot - 1)
        fp == IF dot = 0 THEN <<>> ELSE SubSeq(body, dot + 1, Len(body))
    IN  IF AllDigits(ip) /\ AllDigits(fp) /\ Len(ip) + Len(fp) > 0
        THEN Some(SignOf(t) * DigitsValue(ip, 0))
        ELSE None

RECURSIVE NatDigits(_)
NatDigits(n) ==
    IF n < 10 THEN <<DigitChar(n)>> ELSE Append(NatDigits(n \div 10), DigitChar(n % 10))

\* '%d' % n
fmt_d(n) == IF n < 0 THEN <<"-">> \o NatDigits(-n) ELSE NatDigits(n)

----------------------------------------------------------------------------
(* dict operations *)
\* d[k] = v on a function-dict
Assign(d, k, v) == [x \in DOMAIN d \cup {k} |-> IF x = k THEN v ELSE d[x]]

Keys(d) == {d[i][1] : i \in 1..Len(d)}
Has(d, k) == k \in Keys(d)
Get(d, k) == d[CHOOSE i \in 1..Len(d) : d[i][1] = k][2]

\* d[k] = v on an ordered dict: in place when k is a key, appended otherwise
Put(d, k, v) ==
    IF Has(d, k)
    THEN [i \in 1..Len(d) |-> IF d[i][1] = k THEN <<k, v>> ELSE d[i]]
    ELSE Append(d, <<k, v>>)

\* info.get(f)
Field(info, f) == IF f \in DOMAIN info THEN info[f] ELSE None

----------------------------------------------------------------------------
(* Files: missing, present but failing in open(), or a sequence of lines/rows *)
Missing == [exists |-> FALSE, readable |-> FALSE, rows |-> <<>>]
Unreadable == [exists |-> TRUE, readable |-> FALSE, rows |-> <<>>]
Readable(rows) == [exists |-> TRUE, readable |-> TRUE, rows |-> rows]
NotRead == [exists |-> FALSE, readable |-> TRUE, rows |-> <<>>]

SeqsUpTo(S, n) == UNION {[1..k -> S] : k \in 0..n}
FilesOf(S, n) == {Missing, Unreadable} \cup {Readable(r) : r \in SeqsUpTo(S, n)}

----------------------------------------------------------------------------
(* The inputs explored *)
T_A == <<"A">>
T_B == <<"B">>
T_C == <<"C">>
T_M == <<"M">>
T_N == <<"N">>
T_Q == <<"Q">>
T_d == <<"d">>

MapLines ==
    { <<"M", " ", "d", " ", "1", " ", "0">>,             \* M d 1 0
      <<"N", " ", "d", " ", "1", "2", " ", "3", "\n">>,  \* N d 12 3
      <<"M", " ", "d", " ", "7", " ", "1", "0">>,        \* M d 7 10
      <<"M", " ", "x">>,                                 \* M x      (2 fields)
      <<"N", " ", "d", " ", "z", " ", "2">>,             \* N d z 2  (no integer)
      <<" ", "#", "c">> }                                \* a comment

DefRowKinds ==
    { [layer |-> Some(T_A), ascell |-> None, name |-> Some(T_M),
       purpose |-> Some(T_d), description |-> Some(<<"x">>)],
      [layer |-> None, ascell |-> Some(<<" ", "B">>), name |-> Some(T_N),
       purpose |-> Some(<<"d", " ">>), description |-> None],
      [layer |-> Some(T_A), ascell |-> None, name |-> Some(T_N),
       purpose |-> Some(T_d), description |-> Some(<<>>)],
      [layer |-> Some(T_A), ascell |-> None, name |-> Some(T_Q),
       purpose |-> Some(T_d), description |-> None],
      [layer |-> Some(T_B), ascell |-> None, name |-> Some(T_M),
       purpose |-> Some(<<" ">>), description |-> None] }

ColorRowKinds ==
    { [layer |-> Some(T_A), color |-> Some(<<"r">>),
       bottom |-> Some(<<"-", "0", ".", "5">>), top |-> Some(<<"2", ".", "5">>)],
      [layer |-> Some(<<"B", " ">>), color |-> None,
       bottom |-> Some(<<"1", ".", "5">>), top |-> Some(<<"1", ".", "5">>)],
      [layer |-> Some(T_C), color |-> Some(<<>>),
       bottom |-> Some(<<"x">>), top |-> Some(<<>>)],
      [layer |-> Some(<<" ">>), color |-> Some(<<"g">>),
       bottom |-> Some(<<"1">>), top |-> Some(<<"2">>)] }

MappingFiles == FilesOf(MapLines, MaxMapLines)
DefFiles == FilesOf(DefRowKinds, MaxDefRows)
ColorFiles == FilesOf(ColorRowKinds, MaxColorRows)

----------------------------------------------------------------------------
(* LayerReader *)

\* (a variant: "except OSError", which lets the ValueError of int() through)
except_OSError(exc) == IF exc = Some("OSError") THEN None ELSE exc

\* "except Exception as e: print(...)": what leaves the method when exc was
\* raised inside the try block
except_Exception(exc) == None

\* the body of the for loop of _load_layer_mapping, for one line
mapping_line(lm, raw) ==
    LET line == strip(raw)
        parts == split(line)
    IN  IF line = <<>> \/ Head(line) = "#" THEN [lm |-> lm, exc |-> None]
        ELSE IF Len(parts) >= 4
        THEN LET layer_number == int(parts[3])
                 datatype == int(parts[4])
             IN  IF layer_number = None \/ datatype = None
                 THEN [lm |-> lm, exc |-> Some("ValueError")]
                 ELSE [lm |-> Assign(lm, <<parts[1], parts[2]>>,
                                     <<layer_number[1], datatype[1]>>),
                       exc |-> None]
        ELSE [lm |-> lm, exc |-> None]    \* "Warning: Invalid line format"

RECURSIVE mapping_lines(_, _)
mapping_lines(lm, lines) ==
    IF lines = <<>> THEN [lm |-> lm, exc |-> None]
    ELSE LET r == mapping_line(lm, Head(lines))
         IN  IF r.exc # None THEN r ELSE mapping_lines(r.lm, Tail(lines))

load_layer_mapping(file) ==
    IF ~file.exists THEN [lm |-> <<>>, exc |-> None]
    ELSE LET r == IF file.readable THEN mapping_lines(<<>>, file.rows)
                  ELSE [lm |-> <<>>, exc |-> Some("OSError")]
         IN  [lm |-> r.lm, exc |-> except_Exception(r.exc)]

def_layer_key(row) == strip(Or(row.layer, Or(row.ascell, <<>>)))
def_name(row) == strip(Or(row.name, <<>>))
def_purpose(row) == strip(Or(row.purpose, <<>>))

\* (a variant: an unmapped row is kept, with GDSII numbers None)
def_row_keeps_unmapped(lm, ls, row) ==
    LET layer_key == def_layer_key(row)
        name == def_name(row)
        purpose == def_purpose(row)
        description == strip(Or(row.description, <<>>))
        key == <<name, purpose>>
        mapped == key \in DOMAIN lm
    IN  IF layer_key = <<>> \/ name = <<>> \/ purpose = <<>> THEN ls
        ELSE Put(ls, layer_key,
                 [name |-> name, purpose |-> purpose,
                  name_gdsii_num |-> IF mapped THEN Some(lm[key][1]) ELSE None,
                  purpose_gdsii_num |-> IF mapped THEN Some(lm[key][2]) ELSE None,
                  description |-> description])

\* (a variant: layer number and datatype taken the wrong way round)
def_row_swapped(lm, ls, row) ==
    LET layer_key == def_layer_key(row)
        name == def_name(row)
        purpose == def_purpose(row)
        description == strip(Or(row.description, <<>>))
        key == <<name, purpose>>
    IN  IF layer_key = <<>> \/ name = <<>> \/ purpose = <<>> THEN ls
        ELSE IF key \in DOMAIN lm
        THEN Put(ls, layer_key,
                 [name |-> name, purpose |-> purpose,
                  name_gdsii_num |-> Some(lm[key][2]),
                  purpose_gdsii_num |-> Some(lm[key][1]),
                  description |-> description])
        ELSE ls

\* the body of the for loop of _load_layer_def, for one row
def_row(lm, ls, row) ==
    LET layer_key == def_layer_key(row)
        name == def_name(row)
        purpose == def_purpose(row)
        description == strip(Or(row.description, <<>>))
        key == <<name, purpose>>
    IN  IF layer_key = <<>> \/ name = <<>> \/ purpose = <<>> THEN ls
        ELSE IF key \in DOMAIN lm
        THEN Put(ls, layer_key,
                 [name |-> name, purpose |-> purpose,
                  name_gdsii_num |-> Some(lm[key][1]),
                  purpose_gdsii_num |-> Some(lm[key][2]),
                  description |-> description])
        ELSE ls                           \* "Warning: No mapping found"

RECURSIVE def_rows(_, _, _)
def_rows(lm, ls, rows) ==
    IF rows = <<>> THEN ls ELSE def_rows(lm, def_row(lm, ls, Head(rows)), Tail(rows))

load_layer_def(file, lm, ls) ==
    IF ~file.exists THEN [layers |-> ls, exc |-> None]
    ELSE LET r == IF file.readable
                  THEN [layers |-> def_rows(lm, ls, file.rows), exc |-> None]
                  ELSE [layers |-> ls, exc |-> Some("OSError")]
         IN  [layers |-> r.layers, exc |-> except_Exception(r.exc)]

\* "int(float(v)) if v not in (None, '') else None", None too when it raises
numeric(v) == IF v # None /\ v[1] # <<>> THEN int_float(v[1]) ELSE None

minimal_entry ==
    [name |-> <<>>, purpose |-> <<>>, name_gdsii_num |-> None,
     purpose_gdsii_num |-> None, description |-> <<>>]

set_color(info, color, bottom_val, top_val) ==
    [f \in DOMAIN info \cup {"color", "bottom", "top"} |->
        IF f = "color" THEN color
        ELSE IF f = "bottom" THEN bottom_val
        ELSE IF f = "top" THEN top_val
        ELSE info[f]]

color_layer_key(row) == strip(Or(row.layer, <<>>))

\* (a variant: a row whose key is not in the table is skipped)
color_row_known_only(ls, row) ==
    LET layer_key == color_layer_key(row)
    IN  IF layer_key = <<>> \/ ~Has(ls, layer_key) THEN ls
        ELSE Put(ls, layer_key,
                 set_color(Get(ls, layer_key), strip(Or(row.color, <<>>)),
                           numeric(row.bottom), numeric(row.top)))

\* (a variant: the entry is built anew for every row, known key or not)
color_row_replace(ls, row) ==
    LET layer_key == color_layer_key(row)
    IN  IF layer_key = <<>> THEN ls
        ELSE Put(ls, layer_key,
                 set_color(minimal_entry, strip(Or(row.color, <<>>)),
                           numeric(row.bottom), numeric(row.top)))

\* the body of the for loop of _load_layer_color, for one row
color_row(ls, row) ==
    LET layer_key == color_layer_key(row)
        color == strip(Or(row.color, <<>>))
        bottom_val == numeric(row.bottom)
        top_val == numeric(row.top)
        info == IF Has(ls, layer_key) THEN Get(ls, layer_key) ELSE minimal_entry
    IN  IF layer_key = <<>> THEN ls
        ELSE Put(ls, layer_key, set_color(info, color, bottom_val, top_val))

RECURSIVE color_rows(_, _)
color_rows(ls, rows) ==
    IF rows = <<>> THEN ls ELSE color_rows(color_row(ls, Head(rows)), Tail(rows))

load_layer_color(file, ls) ==
    IF ~file.exists THEN [layers |-> ls, exc |-> None]
    ELSE LET r == IF file.readable
                  THEN [layers |-> color_rows(ls, file.rows), exc |-> None]
                  ELSE [layers |-> ls, exc |-> Some("OSError")]
         IN  [layers |-> r.layers, exc |-> except_Exception(r.exc)]

\* (a variant: a missing number is written as 0)
fmt_index_default(a, b) ==
    Some(fmt_d(IF a = None THEN 0 ELSE a[1]) \o <<"/">>
         \o fmt_d(IF b = None THEN 0 ELSE b[1]))

\* '%d/%d' % (a, b) for optional a, b: None stands for the TypeError
fmt_index(a, b) ==
    IF a = None \/ b = None THEN None
    ELSE Some(fmt_d(a[1]) \o <<"/">> \o fmt_d(b[1]))

NoQuery == [op |-> "none", key |-> <<>>, raised |-> None, str |-> <<>>, map |-> <<>>]

get_klayoutlayer_index(ls, layer_key) ==
    IF ~Has(ls, layer_key)
    THEN [NoQuery EXCEPT !.op = "get", !.key = layer_key, !.raised = Some("KeyError")]
    ELSE LET v == Get(ls, layer_key)
             s == fmt_index(v.name_gdsii_num, v.purpose_gdsii_num)
         IN  IF s = None
             THEN [NoQuery EXCEPT !.op = "get", !.key = layer_key,
                                  !.raised = Some("TypeError")]
             ELSE [NoQuery EXCEPT !.op = "get", !.key = layer_key, !.str = s[1]]

\* (a variant: a record without numbers is left out of the map)
RECURSIVE layer2index_items_skip(_, _)
layer2index_items_skip(items, layer2index) ==
    IF items = <<>> THEN Some(layer2index)
    ELSE LET k == Head(items)[1]
             v == Head(items)[2]
             s == fmt_index(v.name_gdsii_num, v.purpose_gdsii_num)
         IN  layer2index_items_skip(Tail(items),
                                    IF s = None THEN layer2index
                                    ELSE Put(layer2index, k, s[1]))

RECURSIVE layer2index_items(_, _)
layer2index_items(items, layer2index) ==
    IF items = <<>> THEN Some(layer2index)
    ELSE LET k == Head(items)[1]
             v == Head(items)[2]
             s == fmt_index(v.name_gdsii_num, v.purpose_gdsii_num)
         IN  IF s = None THEN None
             ELSE layer2index_items(Tail(items), Put(layer2index, k, s[1]))

gen_layer2index(ls) ==
    LET r == layer2index_items(ls, <<>>)
    IN  IF r = None THEN [NoQuery EXCEPT !.op = "gen", !.raised = Some("TypeError")]
        ELSE [NoQuery EXCEPT !.op = "gen", !.map = r[1]]

----------------------------------------------------------------------------
(* model_main.py *)
z_scale == 100

\* (a variant: without "if height == 0.0: height = 1.0")
derive_item_no_minimum(maps, key, info) ==
    LET ln == Field(info, "name_gdsii_num")
        dt == Field(info, "purpose_gdsii_num")
        b == Field(info, "bottom")
        t == Field(info, "top")
        color == IF "color" \in DOMAIN info THEN Some(info.color) ELSE None
        z0 == IF b # None /\ t # None THEN b[1] * z_scale ELSE 0
        height == IF b # None /\ t # None THEN (t[1] - b[1]) * z_scale ELSE 1
    IN  [ld_to_key |-> IF ln # None /\ dt # None
                       THEN Assign(maps.ld_to_key, <<ln[1], dt[1]>>, key)
                       ELSE maps.ld_to_key,
         bottom_top |-> Assign(maps.bottom_top, key, <<z0, height>>),
         layer_colors |-> Assign(maps.layer_colors, key, color)]

\* the body of the loop over lr.layers.items() that fills the three maps
derive_item(maps, key, info) ==
    LET ln == Field(info, "name_gdsii_num")
        dt == Field(info, "purpose_gdsii_num")
        b == Field(info, "bottom")
        t == Field(info, "top")
        color == IF "color" \in DOMAIN info THEN Some(info.color) ELSE None
        z0 == IF b # None /\ t # None THEN b[1] * z_scale ELSE 0
        h == (t[1] - b[1]) * z_scale
        height == IF b # None /\ t # None THEN (IF h = 0 THEN 1 ELSE h) ELSE 1
    IN  [ld_to_key |-> IF ln # None /\ dt # None
                       THEN Assign(maps.ld_to_key, <<ln[1], dt[1]>>, key)
                       ELSE maps.ld_to_key,
         bottom_top |-> Assign(maps.bottom_top, key, <<z0, height>>),
         layer_colors |-> Assign(maps.layer_colors, key, color)]

RECURSIVE derive_items(_, _)
derive_items(maps, items) ==
    IF items = <<>> THEN maps
    ELSE derive_items(derive_item(maps, Head(items)[1], Head(items)[2]), Tail(items))

derive(ls) ==
    derive_items([ld_to_key |-> <<>>, bottom_top |-> <<>>, layer_colors |-> <<>>], ls)

\* The layout read from the GDS file: its (layer, datatype) pairs in the order
\* of layout.layer_indexes(), each absent from the layout, present without any
\* polygon that extrudes to a mesh, or present with such polygons
LayoutOrder == << <<1, 0>>, <<12, 3>>, <<5, 5>> >>
Layouts == [1..Len(LayoutOrder) -> {"absent", "empty", "shapes"}]

\* the body of the loop of build_figure, for one layer index
figure_layer(acc, ld, shapes, ld2key, bt) ==
    LET layer_key == ld2key[ld]
        zh == IF layer_key \in DOMAIN bt THEN bt[layer_key] ELSE <<0, 0>>
    IN  IF ld \notin DOMAIN ld2key THEN acc
        ELSE IF zh[2] = 0
        THEN [acc EXCEPT !.skips = acc.skips \cup {layer_key}]
        ELSE IF ~shapes THEN acc
        ELSE [acc EXCEPT !.traces =
                 Append(acc.traces, [name |-> "Mesh3d", layer_key |-> layer_key,
                                     ld |-> ld, z0 |-> zh[1], height |-> zh[2]])]

RECURSIVE figure_layers(_, _, _, _, _)
figure_layers(acc, i, layout, ld2key, bt) ==
    IF i > Len(LayoutOrder) THEN acc
    ELSE figure_layers(IF layout[i] = "absent" THEN acc
                       ELSE figure_layer(acc, LayoutOrder[i], layout[i] = "shapes",
                                         ld2key, bt),
                       i + 1, layout, ld2key, bt)

build_figure(layout, ld2key, bt) ==
    figure_layers([traces |-> <<>>, skips |-> {}], 1, layout, ld2key, bt)

----------------------------------------------------------------------------
(* The program as a state machine *)
Init ==
    /\ pc = "load_mapping"
    /\ mapFile = NotRead
    /\ defFile = NotRead
    /\ colorFile = NotRead
    /\ layer_mapping = <<>>
    /\ layers = <<>>
    /\ row_num = 0
    /\ exception = None
    /\ query = NoQuery
    /\ ld_to_key = <<>>
    /\ bottom_top = <<>>
    /\ layer_colors = <<>>
    /\ fig = <<>>
    /\ height_skips = {}
    /\ clicked_points = <<>>
    /\ output = <<"", None>>
    /\ clicks = 0

viewer == <<ld_to_key, bottom_top, layer_colors, fig, height_skips,
            clicked_points, output, clicks>>

\* An exception raised inside a try block: the handler runs, and the method
\* returns (the program goes to next) unless an exception leaves it
Raise(exc, next) ==
    /\ exception' = except_Exception(exc)
    /\ pc' = IF except_Exception(exc) = None THEN next ELSE "raised"

\* where the program is after opening a file: the method returns when the file
\* does not exist, open() raises when it cannot be read
Open(file, loop, next) ==
    IF ~file.exists THEN pc' = next /\ row_num' = 0 /\ UNCHANGED exception
    ELSE IF ~file.readable THEN Raise(Some("OSError"), next) /\ row_num' = 0
    ELSE pc' = loop /\ row_num' = 1 /\ UNCHANGED exception

\* self._load_layer_mapping(), to the start of its loop
OpenMapping ==
    /\ pc = "load_mapping"
    /\ \E file \in MappingFiles : mapFile' = file /\ Open(file, "mapping_loop", "load_def")
    /\ layer_mapping' = <<>>
    /\ UNCHANGED <<defFile, colorFile, layers, query, viewer>>

\* one line of the mapping file
MappingLine ==
    /\ pc = "mapping_loop"
    /\ row_num <= Len(mapFile.rows)
    /\ LET r == mapping_line(layer_mapping, mapFile.rows[row_num])
       IN  /\ layer_mapping' = r.lm
           /\ IF r.exc = None
              THEN row_num' = row_num + 1 /\ UNCHANGED <<pc, exception>>
              ELSE Raise(r.exc, "load_def") /\ row_num' = 0
    /\ UNCHANGED <<mapFile, defFile, colorFile, layers, query, viewer>>

MappingEnd ==
    /\ pc = "mapping_loop"
    /\ row_num > Len(mapFile.rows)
    /\ pc' = "load_def"
    /\ row_num' = 0
    /\ UNCHANGED <<mapFile, defFile, colorFile, layer_mapping, layers, exception,
                   query, viewer>>

\* self._load_layer_def(), to the start of its loop; the mapping file matters
\* from here on only through layer_mapping, and is forgotten
OpenDef ==
    /\ pc = "load_def"
    /\ \E file \in DefFiles : defFile' = file /\ Open(file, "def_loop", "load_color")
    /\ mapFile' = NotRead
    /\ UNCHANGED <<colorFile, layer_mapping, layers, query, viewer>>

\* one row of the definition file
DefRow ==
    /\ pc = "def_loop"
    /\ row_num <= Len(defFile.rows)
    /\ layers' = def_row(layer_mapping, layers, defFile.rows[row_num])
    /\ row_num' = row_num + 1
    /\ UNCHANGED <<pc, mapFile, defFile, colorFile, layer_mapping, exception,
                   query, viewer>>

DefEnd ==
    /\ pc = "def_loop"
    /\ row_num > Len(defFile.rows)
    /\ pc' = "load_color"
    /\ row_num' = 0
    /\ UNCHANGED <<mapFile, defFile, colorFile, layer_mapping, layers, exception,
                   query, viewer>>

\* self._load_layer_color(), to the start of its loop
OpenColor ==
    /\ pc = "load_color"
    /\ \E file \in ColorFiles : colorFile' = file /\ Open(file, "color_loop", "loaded")
    /\ UNCHANGED <<mapFile, defFile, layer_mapping, layers, query, viewer>>

\* one row of the color file
ColorRow ==
    /\ pc = "color_loop"
    /\ row_num <= Len(colorFile.rows)
    /\ layers' = color_row(layers, colorFile.rows[row_num])
    /\ row_num' = row_num + 1
    /\ UNCHANGED <<pc, mapFile, defFile, colorFile, layer_mapping, exception,
                   query, viewer>>

ColorEnd ==
    /\ pc = "color_loop"
    /\ row_num > Len(colorFile.rows)
    /\ pc' = "loaded"
    /\ row_num' = 0
    /\ UNCHANGED <<mapFile, defFile, colorFile, layer_mapping, layers, exception,
                   query, viewer>>

\* __init__ returns: the object holds layer_mapping and layers, not the files
Return ==
    /\ pc = "loaded"
    /\ pc' = "ready"
    /\ defFile' = NotRead
    /\ colorFile' = NotRead
    /\ UNCHANGED <<mapFile, layer_mapping, layers, row_num, exception, query, viewer>>

QueryKeys == {T_A, T_B, T_C}

GetKlayoutlayerIndex ==
    /\ pc = "ready"
    /\ \E layer_key \in QueryKeys : query' = get_klayoutlayer_index(layers, layer_key)
    /\ UNCHANGED <<pc, mapFile, defFile, colorFile, layer_mapping, layers, row_num,
                   exception, viewer>>

GenLayer2Index ==
    /\ pc = "ready"
    /\ query' = gen_layer2index(layers)
    /\ UNCHANGED <<pc, mapFile, defFile, colorFile, layer_mapping, layers, row_num,
                   exception, viewer>>

\* model_main.py, "1) Load mapping/colors": it makes no query of lr
Derive ==
    /\ pc = "ready"
    /\ query = NoQuery
    /\ LET maps == derive(layers)
       IN  /\ ld_to_key' = maps.ld_to_key
           /\ bottom_top' = maps.bottom_top
           /\ layer_colors' = maps.layer_colors
    /\ pc' = "derived"
    /\ UNCHANGED <<mapFile, defFile, colorFile, layer_mapping, layers, row_num, exception,
                   query, fig, height_skips, clicked_points, output, clicks>>

\* fig = build_figure()
BuildFigure ==
    /\ pc = "derived"
    /\ \E layout \in Layouts :
          LET r == build_figure(layout, ld_to_key, bottom_top)
          IN  /\ fig' = r.traces
              /\ height_skips' = r.skips
    /\ pc' = "serving"
    /\ UNCHANGED <<mapFile, defFile, colorFile, layer_mapping, layers, row_num, exception,
                   query, ld_to_key, bottom_top, layer_colors, clicked_points,
                   output, clicks>>

Next ==
    \/ OpenMapping
    \/ MappingLine
    \/ MappingEnd
    \/ OpenDef
    \/ DefRow
    \/ DefEnd
    \/ OpenColor
    \/ ColorRow
    \/ ColorEnd
    \/ Return
    \/ GetKlayoutlayerIndex
    \/ GenLayer2Index
    \/ Derive
    \/ BuildFigure

\* The loader, the queries and the script up to the built figure
Spec == Init /\ [][Next]_vars

----------------------------------------------------------------------------
(* The measure callback of the dashboard *)

\* the points of the rendered figure a click can hit, as (x, y, z)
Points == {<<0, 0, 0>>, <<3, 4, 0>>, <<0, 0, 100>>}

\* (a variant: without "clicked_points = []" after a measurement)
measure_no_reset(clickData, points, traces) ==
    IF clickData = None
    THEN [clicked_points |-> points, fig |-> traces, output |-> <<"", None>>]
    ELSE LET appended == Append(points, clickData[1])
             p1 == appended[1]
             p2 == appended[2]
             dist2 == (p2[1] - p1[1]) * (p2[1] - p1[1])
                      + (p2[2] - p1[2]) * (p2[2] - p1[2])
                      + (p2[3] - p1[3]) * (p2[3] - p1[3])
         IN  IF Len(appended) = 2
             THEN [clicked_points |-> appended,
                   fig |-> Append(traces,
                                  [name |-> "Measurement", x |-> <<p1[1], p2[1]>>,
                                   y |-> <<p1[2], p2[2]>>, z |-> <<p1[3], p2[3]>>,
                                   text |-> dist2]),
                   output |-> <<"Distance", Some(dist2)>>]
             ELSE [clicked_points |-> appended, fig |-> traces,
                   output |-> <<"First point selected...", None>>]

\* measure(clickData): the globals it leaves and what it returns for "output";
\* the distance is kept as its square
measure(clickData, points, traces) ==
    IF clickData = None
    THEN [clicked_points |-> points, fig |-> traces, output |-> <<"", None>>]
    ELSE LET appended == Append(points, clickData[1])
             p1 == appended[1]
             p2 == appended[2]
             dist2 == (p2[1] - p1[1]) * (p2[1] - p1[1])
                      + (p2[2] - p1[2]) * (p2[2] - p1[2])
                      + (p2[3] - p1[3]) * (p2[3] - p1[3])
         IN  IF Len(appended) = 2
             THEN [clicked_points |-> <<>>,
                   fig |-> Append(traces,
                                  [name |-> "Measurement", x |-> <<p1[1], p2[1]>>,
                                   y |-> <<p1[2], p2[2]>>, z |-> <<p1[3], p2[3]>>,
                                   text |-> dist2]),
                   output |-> <<"Distance", Some(dist2)>>]
             ELSE [clicked_points |-> appended, fig |-> traces,
                   output |-> <<"First point selected...", None>>]

Measure ==
    /\ pc = "serving"
    /\ \E clickData \in {None} \cup {Some(p) : p \in Points} :
          /\ clickData # None => clicks < MaxClicks
          /\ LET r == measure(clickData, clicked_points, fig)
             IN  /\ clicked_points' = r.clicked_points
                 /\ fig' = r.fig
                 /\ output' = r.output
          /\ clicks' = IF clickData = None THEN clicks ELSE clicks + 1
    /\ UNCHANGED <<pc, mapFile, defFile, colorFile, layer_mapping, layers, row_num,
                   exception, query, ld_to_key, bottom_top, layer_colors,
                   height_skips>>

\* The dashboard serving a figure built from a two-layer table
ServedMapping ==
    Readable(<< <<"M", " ", "d", " ", "1", " ", "0">>,
                <<"N", " ", "d", " ", "1", "2", " ", "3", "\n">> >>)
ServedDefs ==
    Readable(<< [layer |-> Some(T_A), ascell |-> None, name |-> Some(T_M),
                 purpose |-> Some(T_d), description |-> Some(<<"x">>)],
                [layer |-> None, ascell |-> Some(<<" ", "B">>), name |-> Some(T_N),
                 purpose |-> Some(<<"d", " ">>), description |-> None] >>)
ServedColors ==
    Readable(<< [layer |-> Some(T_A), color |-> Some(<<"r">>),
                 bottom |-> Some(<<"-", "0", ".", "5">>),
                 top |-> Some(<<"2", ".", "5">>)] >>)

MeasureInit ==
    \E layout \in Layouts :
        LET lm == load_layer_mapping(ServedMapping).lm
            defs == load_layer_def(ServedDefs, lm, <<>>).layers
            ls == load_layer_color(ServedColors, defs).layers
            maps == derive(ls)
            built == build_figure(layout, maps.ld_to_key, maps.bottom_top)
        IN  /\ built.traces # <<>>
            /\ pc = "serving"
            /\ mapFile = NotRead
            /\ defFile = NotRead
            /\ colorFile = NotRead
            /\ layer_mapping = lm
            /\ layers = ls
            /\ row_num = 0
            /\ exception = None
            /\ query = NoQuery
            /\ ld_to_key = maps.ld_to_key
            /\ bottom_top = maps.bottom_top
            /\ layer_colors = maps.layer_colors
            /\ fig = built.traces
            /\ height_skips = built.skips
            /\ clicked_points = <<>>
            /\ output = <<"", None>>
            /\ clicks = 0

SpecMeasure == MeasureInit /\ [][Measure]_vars

----------------------------------------------------------------------------
(* What the claims speak of *)

\* the rows a load step got out of its file
Rows(file) == IF file.exists /\ file.readable THEN file.rows ELSE <<>>

DefPair(row) == <<def_name(row), def_purpose(row)>>

\* a definition row that is neither skipped for an empty field nor unmapped
Resolves(row) ==
    /\ def_layer_key(row) # <<>>
    /\ def_name(row) # <<>>
    /\ def_purpose(row) # <<>>
    /\ DefPair(row) \in DOMAIN layer_mapping

ResolvedRows == {n \in 1..Len(Rows(defFile)) : Resolves(Rows(defFile)[n])}
ResolvedKeys == {def_layer_key(Rows(defFile)[n]) : n \in ResolvedRows}

\* the keys of the definition rows whose (name, purpose) has no mapping entry,
\* less those another definition row resolved
DroppedKeys ==
    {def_layer_key(Rows(defFile)[n]) :
        n \in {m \in 1..Len(Rows(defFile)) :
                  DefPair(Rows(defFile)[m]) \notin DOMAIN layer_mapping}}
    \ (ResolvedKeys \cup {<<>>})

ColorKeys == {color_layer_key(Rows(colorFile)[n]) : n \in 1..Len(Rows(colorFile))}

\* the record of the last resolved definition row of key k
LastResolved(k) ==
    LET last == CHOOSE n \in ResolvedRows :
                    /\ def_layer_key(Rows(defFile)[n]) = k
                    /\ \A m \in ResolvedRows :
                          def_layer_key(Rows(defFile)[m]) = k => m <= n
        row == Rows(defFile)[last]
    IN  [name |-> def_name(row), purpose |-> def_purpose(row),
         name_gdsii_num |-> Some(layer_mapping[DefPair(row)][1]),
         purpose_gdsii_num |-> Some(layer_mapping[DefPair(row)][2]),
         description |-> strip(Or(row.description, <<>>))]

HasNumbers(info) == info.name_gdsii_num # None /\ info.purpose_gdsii_num # None

IsMinimal(info) ==
    /\ info.name = <<>>
    /\ info.purpose = <<>>
    /\ info.description = <<>>
    /\ info.name_gdsii_num = None
    /\ info.purpose_gdsii_num = None

DefsRead == {"load_color", "color_loop", "loaded"}

----------------------------------------------------------------------------
\* C1 as stated: after construction, the key of a definition row whose
\* (name, purpose) has no mapping entry is absent from self.layers (unless
\* another definition row with that key resolved).
C1_AbsentFromFinalTable ==
    pc = "loaded" => \A k \in DroppedKeys : ~Has(layers, k)

\* C1 as amended: such a key is absent from the table the definition pass
\* leaves; in the final table it is present only when a color row names it, and
\* then as the minimal record (empty name, purpose and description, GDSII
\* numbers None), never with the data of the definition row.
C1_DroppedByDefinitionPass ==
    /\ pc = "load_color" => \A k \in DroppedKeys : ~Has(layers, k)
    /\ pc = "loaded" =>
          \A k \in DroppedKeys :
              Has(layers, k) => k \in ColorKeys /\ IsMinimal(Get(layers, k))

C1_Witness ==
    /\ pc = "loaded"
    /\ T_A \in DroppedKeys
    /\ Has(layers, T_A)
    /\ T_A \in ColorKeys

\* C2: every record has both GDSII numbers or neither; a record with numbers
\* has a non-empty name and purpose, (name, purpose) is a key of layer_mapping
\* and the numbers are layer_mapping[(name, purpose)]; it is the record of the
\* last resolved definition row of its layer key, and no key occurs twice.
C2_NumbersComeFromMapping ==
    /\ \A n, m \in 1..Len(layers) : layers[n][1] = layers[m][1] => n = m
    /\ \A n \in 1..Len(layers) :
          LET k == layers[n][1]
              v == layers[n][2]
          IN  /\ (v.name_gdsii_num = None) <=> (v.purpose_gdsii_num = None)
              /\ HasNumbers(v) =>
                    /\ v.name # <<>>
                    /\ v.purpose # <<>>
                    /\ <<v.name, v.purpose>> \in DOMAIN layer_mapping
                    /\ <<v.name_gdsii_num[1], v.purpose_gdsii_num[1]>>
                          = layer_mapping[<<v.name, v.purpose>>]
                    /\ pc \in DefsRead =>
                          /\ k \in ResolvedKeys
                          /\ LET last == LastResolved(k)
                             IN  /\ v.name = last.name
                                 /\ v.purpose = last.purpose
                                 /\ v.name_gdsii_num = last.name_gdsii_num
                                 /\ v.purpose_gdsii_num = last.purpose_gdsii_num
                                 /\ v.description = last.description

C2_Witness ==
    /\ pc = "loaded"
    /\ Len(Rows(defFile)) = 2
    /\ ResolvedRows = {1, 2}
    /\ ResolvedKeys = {T_A}
    /\ def_name(Rows(defFile)[1]) = T_M
    /\ def_name(Rows(defFile)[2]) = T_N
    /\ Get(layers, T_A).name = T_N
    /\ Get(layers, T_A).name_gdsii_num = Some(12)

\* C3: the table the definition pass leaves holds exactly the resolved keys,
\* and the step of a color row with a non-empty key outside it leaves a record
\* for that key with empty name, purpose and description, GDSII numbers None,
\* and the color, bottom and top of that row.
C3_ColorRowCreatesMinimalRecord ==
    /\ [](pc = "load_color" => Keys(layers) = ResolvedKeys)
    /\ [][(pc = "color_loop" /\ row_num <= Len(colorFile.rows)) =>
            LET row == colorFile.rows[row_num]
                k == color_layer_key(row)
            IN  (k # <<>> /\ k \notin ResolvedKeys) =>
                    /\ Has(layers', k)
                    /\ Get(layers', k) =
                          [name |-> <<>>, purpose |-> <<>>, name_gdsii_num |-> None,
                           purpose_gdsii_num |-> None, description |-> <<>>,
                           color |-> strip(Or(row.color, <<>>)),
                           bottom |-> numeric(row.bottom),
                           top |-> numeric(row.top)]]_vars

C3_Witness ==
    /\ pc = "loaded"
    /\ T_B \notin ResolvedKeys
    /\ Has(layers, T_B)
    /\ IsMinimal(Get(layers, T_B))
    /\ Get(layers, T_B).bottom = Some(1)
    /\ Get(layers, T_B).top = Some(1)

\* a mapping line 'name purpose layer datatype'
WellFormed(raw) ==
    LET parts == split(strip(raw))
    IN  /\ Len(parts) = 4
        /\ Head(parts[1]) # "#"
        /\ int(parts[3]) # None
        /\ int(parts[4]) # None

MapPair(raw) == <<split(strip(raw))[1], split(strip(raw))[2]>>
MapValue(raw) == <<int(split(strip(raw))[3])[1], int(split(strip(raw))[4])[1]>>

\* C4: when _load_layer_mapping has returned, nothing was raised, every
\* well-formed line of the file has its entry in layer_mapping (with the numbers
\* of the last well-formed line of its (name, purpose)), whatever malformed
\* lines stand before or after it, and every entry comes from a well-formed line.
C4_MalformedLineSkipped ==
    (pc = "load_def" /\ mapFile.exists /\ mapFile.readable) =>
        LET lines == mapFile.rows
            good == {n \in 1..Len(lines) : WellFormed(lines[n])}
        IN  /\ exception = None
            /\ \A n \in good :
                  /\ MapPair(lines[n]) \in DOMAIN layer_mapping
                  /\ (\A m \in good : MapPair(lines[m]) = MapPair(lines[n]) => m <= n)
                        => layer_mapping[MapPair(lines[n])] = MapValue(lines[n])
            /\ \A key \in DOMAIN layer_mapping :
                  \E n \in good : MapPair(lines[n]) = key

\* the text of n as '%d' gives it: digits without padding, "-" when negative
Plain(t, n) ==
    /\ int(t) = Some(n)
    /\ Head(t) # "+"
    /\ LET digits == IF Head(t) = "-" THEN Tail(t) ELSE t
       IN  Len(digits) = 1 \/ Head(digits) # "0"

IsAddress(s, layer_number, datatype) ==
    \E p \in 1..Len(s) :
        /\ s[p] = "/"
        /\ Plain(SubSeq(s, 1, p - 1), layer_number)
        /\ Plain(SubSeq(s, p + 1, Len(s)), datatype)

\* C5: get_klayoutlayer_index(key) returns "<layer>/<datatype>" in plain
\* decimals when key is in the table with both GDSII numbers, and raises,
\* returning no string, when the key is absent or a number is None.
C5_IndexOrError ==
    query.op = "get" =>
        IF Has(layers, query.key) /\ HasNumbers(Get(layers, query.key))
        THEN /\ query.raised = None
             /\ IsAddress(query.str, Get(layers, query.key).name_gdsii_num[1],
                          Get(layers, query.key).purpose_gdsii_num[1])
        ELSE /\ query.raised # None
             /\ query.str = <<>>

C5_Witness ==
    /\ query.op = "get"
    /\ query.raised = None
    /\ query.str = <<"1", "2", "/", "3">>

\* C6: gen_layer2index() returns a map over exactly the keys of the table, each
\* value the string get_klayoutlayer_index gives for the key, and raises,
\* returning no map, when some record lacks GDSII numbers.
C6_FullMapOrError ==
    query.op = "gen" =>
        IF \A n \in 1..Len(layers) : HasNumbers(layers[n][2])
        THEN /\ query.raised = None
             /\ Len(query.map) = Len(layers)
             /\ Keys(query.map) = Keys(layers)
             /\ \A k \in Keys(layers) :
                   /\ get_klayoutlayer_index(layers, k).raised = None
                   /\ Get(query.map, k) = get_klayoutlayer_index(layers, k).str
        ELSE /\ query.raised # None
             /\ query.map = <<>>

C6_Witness ==
    /\ query.op = "gen"
    /\ query.raised = None
    /\ Keys(query.map) = {T_A, T_B}

\* C7: no exception leaves a load step or the constructor, whatever the three
\* files are; with neither definition rows nor color rows read (files missing,
\* unreadable or empty) the table is empty; with the color file missing the
\* table is exactly the records of the resolved definition rows, none with
\* color, bottom or top.
C7_ConstructionNeverRaises ==
    /\ exception = None
    /\ pc # "raised"
    /\ pc = "loaded" =>
          /\ (Rows(defFile) = <<>> /\ Rows(colorFile) = <<>>) => layers = <<>>
          /\ colorFile = Missing =>
                /\ Keys(layers) = ResolvedKeys
                /\ Len(layers) = Cardinality(ResolvedKeys)
                /\ \A n \in 1..Len(layers) : layers[n][2] = LastResolved(layers[n][1])

C7_Witness ==
    /\ pc = "loaded"
    /\ colorFile = Missing
    /\ Len(layers) = 2
    /\ DroppedKeys = {}

\* C8: every key of the table has a height in bottom_top that is not zero:
\* (top - bottom) * z_scale when both are present and differ as integers, 1
\* otherwise; build_figure drops no layer at its height == 0.0 test.
C8_HeightNeverZero ==
    pc \in {"derived", "serving"} =>
        /\ DOMAIN bottom_top = Keys(layers)
        /\ \A n \in 1..Len(layers) :
              LET b == Field(layers[n][2], "bottom")
                  t == Field(layers[n][2], "top")
                  height == bottom_top[layers[n][1]][2]
              IN  /\ height # 0
                  /\ height = IF b # None /\ t # None /\ b[1] # t[1]
                              THEN (t[1] - b[1]) * z_scale
                              ELSE 1
        /\ pc = "serving" => height_skips = {}

C8_Witness ==
    /\ pc = "serving"
    /\ Has(layers, T_B)
    /\ Field(Get(layers, T_B), "bottom") = Some(1)
    /\ Field(Get(layers, T_B), "top") = Some(1)
    /\ \E n \in 1..Len(fig) : fig[n].layer_key = T_B /\ fig[n].height = 1

Measurements(traces) == {n \in 1..Len(traces) : traces[n].name = "Measurement"}

\* C9: clicked_points holds 0 or 1 points between calls and the measurement
\* traces number half the calls with click data; a call without click data
\* changes neither clicked_points nor the figure; an odd call with click data
\* stores its point, reports the first point and adds no trace; an even one
\* adds one Measurement trace from the stored point, reports the distance and
\* empties clicked_points.
C9_TwoClickMachine ==
    /\ [](/\ Len(clicked_points) = clicks % 2
          /\ Cardinality(Measurements(fig)) = clicks \div 2)
    /\ [][/\ clicks' = clicks =>
                /\ clicked_points' = clicked_points
                /\ fig' = fig
          /\ (clicks' = clicks + 1 /\ clicks % 2 = 0) =>
                /\ Len(clicked_points') = 1
                /\ clicked_points'[1] \in Points
                /\ fig' = fig
                /\ output' = <<"First point selected...", None>>
          /\ (clicks' = clicks + 1 /\ clicks % 2 = 1) =>
                /\ clicked_points' = <<>>
                /\ Len(fig') = Len(fig) + 1
                /\ SubSeq(fig', 1, Len(fig)) = fig
                /\ LET trace == fig'[Len(fig')]
                       p1 == clicked_points[1]
                   IN  /\ trace.name = "Measurement"
                       /\ <<trace.x[1], trace.y[1], trace.z[1]>> = p1
                       /\ <<trace.x[2], trace.y[2], trace.z[2]>> \in Points
                /\ output'[1] = "Distance"]_vars

C9_Witness ==
    /\ clicks = 4
    /\ Cardinality(Measurements(fig)) = 2
    /\ clicked_points = <<>>
    /\ output[1] = "Distance"

\* C10: no step of _load_layer_color removes a key or changes the name,
\* purpose, GDSII numbers or description of a record: it adds color, bottom and
\* top at most; the step of a color row with an empty key changes nothing.
C10_ColorPassOnlyAdds ==
    [][(pc \in {"load_color", "color_loop"}) =>
       (
        /\ \A n \in 1..Len(layers) :
              LET k == layers[n][1]
                  old == layers[n][2]
              IN  /\ Has(layers', k)
                  /\ DOMAIN Get(layers', k) \subseteq DOMAIN old \cup {"color", "bottom", "top"}
                  /\ \A f \in {"name", "purpose", "name_gdsii_num",
                               "purpose_gdsii_num", "description"} :
                        Get(layers', k)[f] = old[f]
        /\ (/\ pc = "color_loop"
            /\ row_num <= Len(colorFile.rows)
            /\ color_layer_key(colorFile.rows[row_num]) = <<>>) => layers' = layers
       )]_vars

C10_Witness ==
    /\ pc = "loaded"
    /\ Has(layers, T_A)
    /\ Get(layers, T_A).name = T_M
    /\ Field(Get(layers, T_A), "top") = Some(2)
    /\ <<>> \in ColorKeys

====
